---------------------------- MODULE Spec2Model ----------------------------
(***************************************************************************)
(* BLS with hashed aggregation exponents (HAE), bgls/blsHAE.go.            *)
(*                                                                         *)
(* The pairing groups are modelled by the discrete logarithms of their     *)
(* elements: a Point1 or Point2 is a number in 0..Order-1 (the multiple of *)
(* the generator it is), the group law is addition modulo Order, scalar    *)
(* multiplication is multiplication modulo Order and the pairing of a and  *)
(* b is a*b modulo Order, which is bilinear and non-degenerate because     *)
(* Order is prime.  The BLAKE2Xb stream is modelled by a stream object     *)
(* with the library's operations (NewXOF, Write, Read); its output bytes   *)
(* are a fixed deterministic function of the requested size and of the     *)
(* bytes written, standing in for the real compression function.           *)
(***************************************************************************)
EXTENDS Integers, Sequences, FiniteSets, TLC

\* ---------------------------------------------------------------- bounds
\* Participants per call: 0..MaxN.
MaxN == 2
\* Secret keys are drawn from 0..MaxSk (0 is the degenerate key whose public
\* key is the identity point).
MaxSk == 2
\* API calls made by the sequential caller.
MaxCalls == 3
\* Participants per invocation in the concurrent specification: 0..MaxConcN.
MaxConcN == 1

\* ------------------------------------------------------------- constants
\* Prime order of the pairing groups (curves package, scaled down).
Order == 32749
\* Bytes read from the stream per exponent (make([]byte, 16)).
ChunkLen == 16
\* Width of the uncompressed encoding of a Point2 (fixed width).
MarshalLen == 2

\* The nil Point1 (no point of the group).
NIL == -1

\* Messages: one for each participant (0 is the shared one) and a spare one.
Msgs == 0..MaxN
SKs == 0..MaxSk

\* ------------------------------------------------------------------ state
\* The stream the latest exponent derivation constructed (a local of
\* hashPubKeysToExponents, kept to state what the call did with it).
VARIABLE hashFunc

\* ------------------------------------------------ curves: group operations
\* The generator of the second group.
G2Gen == 1

\* Point.Add: the group law.
PointAdd(p, q) == (p + q) % Order

RECURSIVE NatMod(_, _, _)
\* A big.Int (little-endian limbs, base 256) reduced modulo m, limbs k.. up.
NatMod(z, k, m) ==
  IF k > Len(z) THEN 0 ELSE (z[k] + 256 * NatMod(z, k + 1, m)) % m

\* Point.Mul(t): scalar multiplication by the big.Int t.
PointMul(p, t) == (p * NatMod(t, 1, Order)) % Order

\* Point2.MarshalUncompressed: the fixed-width big-endian encoding of a point.
MarshalUncompressed(p) == <<(p \div 256) % 256, p % 256>>

\* The pairing e(a, b).
Pair(a, b) == (a * b) % Order

\* Hash of a message to the first group (injective on Msgs).
HashToG1(m) == (m * m * 17 + m * 3 + 5) % Order

\* ------------------------------------------------------------- big.Int
RECURSIVE Norm(_)
\* nat.norm: drop the most significant limbs that are zero.
Norm(z) ==
  IF z # <<>> /\ z[Len(z)] = 0 THEN Norm(SubSeq(z, 1, Len(z) - 1)) ELSE z

\* new(big.Int).SetBytes(buf): buf is a big-endian unsigned integer.
SetBytes(buf) == Norm([k \in 1..Len(buf) |-> buf[Len(buf) + 1 - k]])

\* ----------------------------------------------------- blake2b: the XOF
RECURSIVE Absorb(_, _, _)
\* The digest of the bytes written so far.
Absorb(buf, i, acc) ==
  IF i > Len(buf) THEN acc
  ELSE Absorb(buf, i + 1, (acc * 131 + buf[i] + 1) % 1000003)

\* The digest of the stream h: of its output size and the bytes written.
Digest(h) == Absorb(h.buf, 1, (h.size * 7 + 1) % 1000003)

\* Output byte j (from 0) of a stream whose digest is d.
XofByte(d, j) == ((((d + 1) * (2 * j + 3)) % 65521) * 37 + j) % 256

\* Output bytes pos .. pos+len-1 of a stream whose digest is d.
Squeeze(d, pos, len) == [k \in 1..len |-> XofByte(d, pos + k - 1)]

\* No stream constructed yet.
NoStream == [size |-> 0, buf |-> <<>>, pos |-> 0]

\* A faulty variant of NewXOF: the package keeps one stream and a call takes
\* it over with the bytes written to it so far.
NewXOFReused(size) == [hashFunc EXCEPT !.size = size, !.pos = 0]

\* blake2b.NewXOF(size, key): a fresh stream, nothing written, nothing read.
NewXOF(size) == [size |-> size, buf |-> <<>>, pos |-> 0]

\* hashFunc.Write(p).
Write(h, p) == [h EXCEPT !.buf = @ \o p]

\* hashFunc.Read(sum): the next len bytes of the output, and the stream after.
Read(h, len) ==
  [sum |-> Squeeze(Digest(h), h.pos, len),
   h |-> [h EXCEPT !.pos = @ + len]]

\* --------------------------------------- bgls: the plain BLS primitives
RECURSIVE SumFrom(_, _)
\* The group sum of points[i..].
SumFrom(points, i) ==
  IF i > Len(points) THEN 0 ELSE PointAdd(points[i], SumFrom(points, i + 1))

\* AggregateG1(points): the sum of the points in the first group.
AggregateG1(points) == SumFrom(points, 1)

\* AggregateG2(keys): the sum of the keys in the second group.
AggregateG2(keys) == SumFrom(keys, 1)

\* KeyGen: the public key of the secret key x.
PubKey(x) == (x * G2Gen) % Order

\* Sign: the plain BLS signature of m under the secret key x.
Sign(x, m) == (x * HashToG1(m)) % Order

\* VerifySingleSignature: e(sig, g2) = e(H(m), pk).
VerifySingleSignature(sig, pk, m) == Pair(sig, G2Gen) = Pair(HashToG1(m), pk)

RECURSIVE PairSum(_, _, _)
\* The product over i.. of e(H(msgs[i]), keys[i]).
PairSum(keys, msgs, i) ==
  IF i > Len(keys) THEN 0
  ELSE (Pair(HashToG1(msgs[i]), keys[i]) + PairSum(keys, msgs, i + 1)) % Order

\* verifyAggSig: one combined pairing equation over the (key, message) pairs.
verifyAggSig(aggsig, keys, msgs, allowDuplicates) ==
  IF Len(keys) # Len(msgs) THEN FALSE
  ELSE IF ~allowDuplicates
          /\ \E i, j \in 1..Len(msgs) : i # j /\ msgs[i] = msgs[j] THEN FALSE
  ELSE Pair(aggsig, G2Gen) = PairSum(keys, msgs, 1)

\* VerifyMultiSignature: one pairing check against the sum of the keys.
VerifyMultiSignature(aggsig, keys, msg) ==
  VerifySingleSignature(aggsig, AggregateG2(keys), msg)

\* ----------------------------------------------------------- blsHAE.go
RECURSIVE WriteKeysBackwards(_, _, _)
\* A faulty variant of the first loop: the keys are written last to first.
WriteKeysBackwards(h, pubkeys, i) ==
  IF i > Len(pubkeys) THEN h
  ELSE WriteKeysBackwards(
         Write(h, MarshalUncompressed(pubkeys[Len(pubkeys) + 1 - i])),
         pubkeys, i + 1)

RECURSIVE WriteKeys(_, _, _)
\* The first loop of hashPubKeysToExponents, from key i on.
WriteKeys(h, pubkeys, i) ==
  IF i > Len(pubkeys) THEN h
  ELSE WriteKeys(Write(h, MarshalUncompressed(pubkeys[i])), pubkeys, i + 1)

RECURSIVE ReadSums(_, _, _)
\* One pass of the second loop: r is what hashFunc.Read(sum) gave.
ReadNext(r, n, t) == ReadSums(r.h, n, Append(t, SetBytes(r.sum)))

\* The second loop of hashPubKeysToExponents, after Len(t) exponents.
ReadSums(h, n, t) ==
  IF Len(t) >= n THEN [t |-> t, hashFunc |-> h]
  ELSE ReadNext(Read(h, ChunkLen), n, t)

\* What hashPubKeysToExponents returns, r being the outcome of its loops: the
\* exponents t, with the keys hashed and the stream as the call leaves it.
\* The function has no error result.
Exponents(pubkeys, r) ==
  [keys |-> pubkeys, t |-> r.t, hashFunc |-> r.hashFunc, err |-> "none"]

\* hashPubKeysToExponents(pubkeys).
hashPubKeysToExponents(pubkeys) ==
  Exponents(pubkeys,
            ReadSums(WriteKeys(NewXOF(ChunkLen * Len(pubkeys)), pubkeys, 1),
                     Len(pubkeys), <<>>))

\* The callee invocations of a call that derives, scales n points and ends in
\* the primitive named last.
CallsOf(n, final) ==
  <<"hashPubKeysToExponents">> \o [i \in 1..n |-> "Mul"] \o <<final>>

\* points[i].Mul(t[i]) for every i.
ScaleAll(points, t) == [i \in 1..Len(points) |-> PointMul(points[i], t[i])]

\* A faulty variant of AggregateScaled: the signatures are aggregated as
\* given (AggregateG1(sigs) for AggregateG1(newsigs)).
AggregateUnscaled(sigs, pubkeys, d) ==
  [ret |-> AggregateG1(sigs),
   calls |-> CallsOf(Len(pubkeys), "AggregateG1"),
   derived |-> <<d>>]

\* AggregateSignaturesWithHAE after the length check, d being what
\* hashPubKeysToExponents(pubkeys) returned.
AggregateScaled(sigs, pubkeys, d) ==
  [ret |-> AggregateG1(ScaleAll(sigs, d.t)),
   calls |-> CallsOf(Len(pubkeys), "AggregateG1"),
   derived |-> <<d>>]

\* A faulty variant of AggregateSignaturesWithHAE: the lengths are compared
\* after the exponents are derived.
AggregateLateCheck(sigs, pubkeys) ==
  CHOOSE r \in {IF Len(pubkeys) # Len(sigs)
                THEN [ret |-> NIL, calls |-> <<"hashPubKeysToExponents">>,
                      derived |-> <<d>>]
                ELSE AggregateScaled(sigs, pubkeys, d) :
                d \in {hashPubKeysToExponents(pubkeys)}} : TRUE

\* AggregateSignaturesWithHAE(sigs, pubkeys).
AggregateSignaturesWithHAE(sigs, pubkeys) ==
  IF Len(pubkeys) # Len(sigs)
  THEN [ret |-> NIL, calls |-> <<>>, derived |-> <<>>]
  ELSE CHOOSE r \in {AggregateScaled(sigs, pubkeys, d) :
                        d \in {hashPubKeysToExponents(pubkeys)}} : TRUE

\* A faulty variant of VerifyAggregateScaled: the keys are verified as given
\* (pubkeys for newkeys).
VerifyAggregateUnscaled(aggsig, pubkeys, msgs, d) ==
  [ret |-> verifyAggSig(aggsig, pubkeys, msgs, TRUE),
   calls |-> CallsOf(Len(pubkeys), "verifyAggSig"),
   derived |-> <<d>>,
   pubkeys |-> pubkeys]

\* VerifyAggregateSignatureWithHAE, d being what hashPubKeysToExponents
\* returned: the scaled keys go to newkeys, the caller's slice is left alone.
VerifyAggregateScaled(aggsig, pubkeys, msgs, d) ==
  [ret |-> verifyAggSig(aggsig, ScaleAll(pubkeys, d.t), msgs, TRUE),
   calls |-> CallsOf(Len(pubkeys), "verifyAggSig"),
   derived |-> <<d>>,
   pubkeys |-> pubkeys]

\* VerifyAggregateSignatureWithHAE(curve, aggsig, pubkeys, msgs); pubkeys is
\* the caller's slice as the call leaves it.
VerifyAggregateSignatureWithHAE(aggsig, pubkeys, msgs) ==
  CHOOSE r \in {VerifyAggregateScaled(aggsig, pubkeys, msgs, d) :
                   d \in {hashPubKeysToExponents(pubkeys)}} : TRUE

\* VerifyMultiSignatureWithHAE once its loop has stored the scaled keys into
\* the caller's slice.
VerifyMultiScaled(aggsig, scaled, msg, d) ==
  [ret |-> VerifyMultiSignature(aggsig, scaled, msg),
   calls |-> CallsOf(Len(scaled), "VerifyMultiSignature"),
   derived |-> <<d>>,
   pubkeys |-> scaled]

\* The loop of VerifyMultiSignatureWithHAE: pubkeys[i] = pubkeys[i].Mul(t[i]).
VerifyMultiLoop(aggsig, pubkeys, msg, d) ==
  VerifyMultiScaled(aggsig, ScaleAll(pubkeys, d.t), msg, d)

\* VerifyMultiSignatureWithHAE(curve, aggsig, pubkeys, msg).
VerifyMultiSignatureWithHAE(aggsig, pubkeys, msg) ==
  CHOOSE r \in {VerifyMultiLoop(aggsig, pubkeys, msg, d) :
                   d \in {hashPubKeysToExponents(pubkeys)}} : TRUE

\* ------------------------------------------------ the sequential caller
\* The sequential caller: its key slice, messages, signatures, the aggregate
\* it holds and the result of its latest verification.
VARIABLES pubkeys, msgs, sigs, aggsig, ok
\* The latest API call (operation, arguments at entry, callee invocations,
\* exponent derivations) and every derivation made so far as (keys, t, err).
VARIABLES call, derivs
\* The latest aggregation (arguments and result), the caller's values before
\* the caller replaced one of them, the run of identical shared-message
\* verifications, and the number of API calls made.
VARIABLES agg, before, repeat, ncalls
\* The concurrent invocations and the stream each one constructed.
VARIABLES inv, xofs

callerVars == <<pubkeys, msgs, sigs, aggsig, ok, call, derivs, hashFunc,
                agg, before, repeat, ncalls>>
concVars == <<inv, xofs>>
vars == <<callerVars, concVars>>

NoArgs == [sigs |-> <<>>, pubkeys |-> <<>>, msgs |-> <<>>, aggsig |-> NIL]
NoRepeat == [n |-> 0, first |-> FALSE]

\* n signers with keys from SKs, signing distinct messages or one shared
\* message with plain BLS.
Init ==
  /\ \E n \in 0..MaxN :
       \E sk \in [1..n -> SKs], shared \in BOOLEAN :
         /\ pubkeys = [i \in 1..n |-> PubKey(sk[i])]
         /\ msgs = [i \in 1..n |-> IF shared THEN 0 ELSE i - 1]
         /\ sigs = [i \in 1..n |->
                      Sign(sk[i], IF shared THEN 0 ELSE i - 1)]
  /\ aggsig = NIL
  /\ ok = FALSE
  /\ call = [op |-> "none", args |-> NoArgs, calls |-> <<>>, derived |-> <<>>]
  /\ derivs = {}
  /\ hashFunc = NoStream
  /\ agg = [sigs |-> <<>>, pubkeys |-> <<>>, ret |-> NIL]
  /\ before = [kind |-> "none", aggsig |-> NIL, pubkeys |-> <<>>, msgs |-> <<>>]
  /\ repeat = NoRepeat
  /\ ncalls = 0
  /\ inv = <<>>
  /\ xofs = <<>>

\* What every API call records: r is the handler's outcome.
Record(op, a, r) ==
  /\ call' = [op |-> op, args |-> a, calls |-> r.calls, derived |-> r.derived]
  /\ derivs' = derivs \cup {[keys |-> r.derived[k].keys, t |-> r.derived[k].t,
                             err |-> r.derived[k].err] : k \in 1..Len(r.derived)}
  /\ hashFunc' = IF r.derived = <<>> THEN hashFunc
                 ELSE r.derived[Len(r.derived)].hashFunc
  /\ ncalls' = ncalls + 1

\* The caller aggregates its signatures with its keys, or leaves the last
\* signature or the last key out.
Aggregate ==
  /\ ncalls < MaxCalls
  /\ \E ks \in {Len(sigs) - 1, Len(sigs)} \cap Nat,
        kk \in {Len(pubkeys) - 1, Len(pubkeys)} \cap Nat :
       /\ ks = Len(sigs) \/ kk = Len(pubkeys)
       /\ \E r \in {AggregateSignaturesWithHAE(SubSeq(sigs, 1, ks),
                                                SubSeq(pubkeys, 1, kk))} :
            /\ aggsig' = r.ret
            /\ agg' = [sigs |-> SubSeq(sigs, 1, ks),
                       pubkeys |-> SubSeq(pubkeys, 1, kk), ret |-> r.ret]
            /\ Record("Aggregate",
                      [NoArgs EXCEPT !.sigs = SubSeq(sigs, 1, ks),
                                     !.pubkeys = SubSeq(pubkeys, 1, kk)], r)
  /\ repeat' = NoRepeat
  /\ UNCHANGED <<pubkeys, msgs, sigs, ok, before, concVars>>

\* The caller verifies its aggregate against its keys and messages.
VerifyAggregate ==
  /\ ncalls < MaxCalls
  /\ aggsig # NIL
  /\ \E r \in {VerifyAggregateSignatureWithHAE(aggsig, pubkeys, msgs)} :
       /\ ok' = r.ret
       /\ pubkeys' = r.pubkeys
       /\ Record("VerifyAggregate",
                 [NoArgs EXCEPT !.aggsig = aggsig, !.pubkeys = pubkeys,
                                !.msgs = msgs], r)
  /\ repeat' = NoRepeat
  /\ UNCHANGED <<msgs, sigs, aggsig, agg, before, concVars>>

\* The caller verifies its aggregate against its keys and one message, its
\* first.
VerifyMulti ==
  /\ ncalls < MaxCalls
  /\ aggsig # NIL
  /\ \E m \in {IF msgs = <<>> THEN 0 ELSE msgs[1]} :
       \E r \in {VerifyMultiSignatureWithHAE(aggsig, pubkeys, m)} :
         /\ ok' = r.ret
         /\ pubkeys' = r.pubkeys
         /\ repeat' = IF call.op = "VerifyMulti" /\ call.args.msgs = <<m>>
                         /\ call.args.aggsig = aggsig
                      THEN [repeat EXCEPT !.n = @ + 1]
                      ELSE [n |-> 1, first |-> r.ret]
         /\ Record("VerifyMulti",
                   [NoArgs EXCEPT !.aggsig = aggsig, !.pubkeys = pubkeys,
                                  !.msgs = <<m>>], r)
  /\ UNCHANGED <<msgs, sigs, aggsig, agg, before, concVars>>

\* The caller replaces one value of the aggregate it has just made, its keys
\* and its messages by a different one (once).
Snapshot(kind) ==
  /\ before.kind = "none"
  /\ call.op = "Aggregate"
  /\ aggsig # NIL
  /\ before' = [kind |-> kind, aggsig |-> aggsig, pubkeys |-> pubkeys,
                msgs |-> msgs]
  /\ call' = [call EXCEPT !.op = "replace"]
  /\ repeat' = NoRepeat
  /\ UNCHANGED <<sigs, ok, derivs, hashFunc, agg, ncalls, concVars>>

ReplaceMsg ==
  /\ Snapshot("msg")
  /\ \E i \in 1..Len(msgs), m \in Msgs :
       /\ m # msgs[i]
       /\ msgs' = [msgs EXCEPT ![i] = m]
  /\ UNCHANGED <<pubkeys, aggsig>>

ReplaceKey ==
  /\ Snapshot("key")
  /\ \E i \in 1..Len(pubkeys), x \in SKs :
       /\ PubKey(x) # pubkeys[i]
       /\ pubkeys' = [pubkeys EXCEPT ![i] = PubKey(x)]
  /\ UNCHANGED <<msgs, aggsig>>

ReplaceSig ==
  /\ Snapshot("sig")
  /\ \E s \in {0} \cup {PointAdd(aggsig, x) : x \in SKs} :
       /\ s # aggsig
       /\ aggsig' = s
  /\ UNCHANGED <<pubkeys, msgs>>

Next ==
  \/ Aggregate
  \/ VerifyAggregate
  \/ VerifyMulti
  \/ ReplaceMsg
  \/ ReplaceKey
  \/ ReplaceSig

Spec == Init /\ [][Next]_vars

\* ------------------------------------------- concurrent invocations
Threads == {1, 2}
ConcSKs == {1, 2}
Ops == {"Aggregate", "VerifyAggregate", "VerifyMulti", "Derive"}

\* A faulty variant of Slot: one stream of the package serves every call.
SlotShared(th) == 1

\* The stream an invocation works on: the one its own call of
\* hashPubKeysToExponents constructed (hashFunc is a local variable).
Slot(th) == th

\* The inputs of an invocation: keys of the signers sk, their messages (one
\* shared message for VerifyMulti), their signatures and the aggregate.  With
\* bad, a verification gets another point as the aggregate and an
\* aggregation gets one signature too few.
JobKeys(sk) == [i \in 1..Len(sk) |-> PubKey(sk[i])]
JobMsgs(op, sk) ==
  IF op = "VerifyMulti" THEN <<0>> ELSE [i \in 1..Len(sk) |-> i - 1]
JobSigs(op, sk) ==
  [i \in 1..Len(sk) |-> Sign(sk[i], IF op = "VerifyMulti" THEN 0 ELSE i - 1)]
Job(op, sk, bad) ==
  [op |-> op,
   pubkeys |-> JobKeys(sk),
   msgs |-> JobMsgs(op, sk),
   sigs |-> IF op = "Aggregate" /\ bad /\ Len(sk) >= 1
            THEN SubSeq(JobSigs(op, sk), 1, Len(sk) - 1)
            ELSE JobSigs(op, sk),
   aggsig |-> PointAdd(AggregateSignaturesWithHAE(JobSigs(op, sk),
                                                  JobKeys(sk)).ret,
                       IF bad THEN 1 ELSE 0)]
Jobs ==
  {Job(op, sk, bad) : op \in Ops, bad \in BOOLEAN,
                      sk \in UNION {[1..n -> ConcSKs] : n \in 0..MaxConcN}}

\* An invocation at its entry.
Entry(j) ==
  [op |-> j.op, in |-> j, pubkeys |-> j.pubkeys, pc |-> "start", i |-> 1,
   t |-> <<>>, out |-> <<>>, retPoint |-> NIL, retBool |-> FALSE,
   mixed |-> FALSE]

InitConc ==
  /\ inv \in [Threads -> {Entry(j) : j \in Jobs}]
  /\ xofs = [s \in Threads |-> NoStream]
  /\ pubkeys = <<>>
  /\ msgs = <<>>
  /\ sigs = <<>>
  /\ aggsig = NIL
  /\ ok = FALSE
  /\ call = [op |-> "none", args |-> NoArgs, calls |-> <<>>, derived |-> <<>>]
  /\ derivs = {}
  /\ hashFunc = NoStream
  /\ agg = [sigs |-> <<>>, pubkeys |-> <<>>, ret |-> NIL]
  /\ before = [kind |-> "none", aggsig |-> NIL, pubkeys |-> <<>>, msgs |-> <<>>]
  /\ repeat = NoRepeat
  /\ ncalls = 0

\* Where an invocation goes after pass i of the loop it is in (after the
\* construction of the stream, for pc = "start").
After(c) ==
  LET n == Len(c.pubkeys)
      next == CASE c.pc = "start" -> "write"
                [] c.pc = "write" -> "read"
                [] c.pc = "read" -> IF c.op = "Derive" THEN "done" ELSE "scale"
                [] c.pc = "scale" -> "final"
  IN  IF c.pc # "start" /\ c.i < n THEN [c EXCEPT !.i = @ + 1]
      ELSE IF n = 0
      THEN [c EXCEPT !.pc = IF c.op = "Derive" THEN "done" ELSE "final"]
      ELSE [c EXCEPT !.pc = next, !.i = 1]

\* Another invocation is in the middle of its hashing.
Overlaps(th) == \E o \in Threads \ {th} : inv[o].pc \in {"write", "read"}

Step(th, c) ==
  inv' = [inv EXCEPT ![th] = [c EXCEPT !.mixed = @ \/ Overlaps(th)]]

\* AggregateSignaturesWithHAE returns nil on sequences of different lengths.
RejectLengths(th) ==
  /\ inv[th].pc = "start"
  /\ inv[th].op = "Aggregate"
  /\ Len(inv[th].pubkeys) # Len(inv[th].in.sigs)
  /\ Step(th, [inv[th] EXCEPT !.pc = "done", !.retPoint = NIL])
  /\ UNCHANGED <<xofs, callerVars>>

\* hashPubKeysToExponents constructs its stream.
NewStream(th) ==
  /\ inv[th].pc = "start"
  /\ inv[th].op = "Aggregate" => Len(inv[th].pubkeys) = Len(inv[th].in.sigs)
  /\ xofs' = [xofs EXCEPT ![Slot(th)] = NewXOF(ChunkLen * Len(inv[th].pubkeys))]
  /\ Step(th, After(inv[th]))
  /\ UNCHANGED callerVars

\* One pass of its first loop: hashFunc.Write(pubkeys[i].MarshalUncompressed()).
WriteKey(th) ==
  /\ inv[th].pc = "write"
  /\ xofs' = [xofs EXCEPT ![Slot(th)] =
                Write(@, MarshalUncompressed(inv[th].pubkeys[inv[th].i]))]
  /\ Step(th, After(inv[th]))
  /\ UNCHANGED callerVars

\* One pass of its second loop: hashFunc.Read(sum), t[i] = SetBytes(sum).
ReadExponent(th) ==
  /\ inv[th].pc = "read"
  /\ \E r \in {Read(xofs[Slot(th)], ChunkLen)} :
       /\ xofs' = [xofs EXCEPT ![Slot(th)] = r.h]
       /\ Step(th, After([inv[th] EXCEPT !.t = Append(@, SetBytes(r.sum))]))
  /\ UNCHANGED callerVars

\* One pass of the scaling loop of the three operations: into newsigs, into
\* newkeys, or into the invocation's own pubkeys slice.
ScalePoint(th) ==
  /\ inv[th].pc = "scale"
  /\ \E c \in {inv[th]} :
       Step(th, After(
         CASE c.op = "Aggregate" ->
                [c EXCEPT !.out = Append(@, PointMul(c.in.sigs[c.i], c.t[c.i]))]
           [] c.op = "VerifyAggregate" ->
                [c EXCEPT !.out = Append(@, PointMul(c.pubkeys[c.i], c.t[c.i]))]
           [] c.op = "VerifyMulti" ->
                [c EXCEPT !.pubkeys[c.i] = PointMul(@, c.t[c.i])]))
  /\ UNCHANGED <<xofs, callerVars>>

\* The call of AggregateG1, verifyAggSig or VerifyMultiSignature, and the
\* return.
Finish(th) ==
  /\ inv[th].pc = "final"
  /\ \E c \in {inv[th]} :
       Step(th,
         CASE c.op = "Aggregate" ->
                [c EXCEPT !.pc = "done", !.retPoint = AggregateG1(c.out)]
           [] c.op = "VerifyAggregate" ->
                [c EXCEPT !.pc = "done",
                          !.retBool = verifyAggSig(c.in.aggsig, c.out,
                                                   c.in.msgs, TRUE)]
           [] c.op = "VerifyMulti" ->
                [c EXCEPT !.pc = "done",
                          !.retBool = VerifyMultiSignature(c.in.aggsig,
                                                           c.pubkeys,
                                                           c.in.msgs[1])])
  /\ UNCHANGED <<xofs, callerVars>>

NextConc ==
  \E th \in Threads :
    \/ RejectLengths(th)
    \/ NewStream(th)
    \/ WriteKey(th)
    \/ ReadExponent(th)
    \/ ScalePoint(th)
    \/ Finish(th)

SpecConc == InitConc /\ [][NextConc]_vars

\* ------------------------------------------------------------- claims
\* The latest call verified the aggregate that the latest aggregation made
\* from the same key sequence, with one signature per key.
RoundTrip ==
  /\ Len(call.args.pubkeys) >= 1
  /\ agg.ret # NIL
  /\ agg.ret = call.args.aggsig
  /\ agg.pubkeys = call.args.pubkeys
  /\ Len(agg.sigs) = Len(agg.pubkeys)

\* C1: when VerifyAggregateSignatureWithHAE is given the aggregate that
\* AggregateSignaturesWithHAE made from n >= 1 signatures and the same keys,
\* signature i being a valid plain BLS signature of message i under key i and
\* the messages being distinct, it returns true.
C1_RoundTripDistinct ==
  ( /\ call.op = "VerifyAggregate"
    /\ RoundTrip
    /\ \A i, j \in 1..Len(call.args.msgs) :
         i # j => call.args.msgs[i] # call.args.msgs[j]
    /\ \A i \in 1..Len(agg.sigs) :
         VerifySingleSignature(agg.sigs[i], call.args.pubkeys[i],
                               call.args.msgs[i]) )
  => ok = TRUE

\* Two signers with different non-degenerate keys and different messages
\* were aggregated and verified.
C1_Witness ==
  /\ call.op = "VerifyAggregate"
  /\ RoundTrip
  /\ Len(call.args.pubkeys) = 2
  /\ call.args.pubkeys[1] # 0
  /\ call.args.pubkeys[2] # 0
  /\ call.args.pubkeys[1] # call.args.pubkeys[2]
  /\ call.args.msgs[1] # call.args.msgs[2]
  /\ \A i \in 1..2 :
       VerifySingleSignature(agg.sigs[i], call.args.pubkeys[i],
                             call.args.msgs[i])
  /\ ok = TRUE

\* C2: when VerifyMultiSignatureWithHAE is given the aggregate that
\* AggregateSignaturesWithHAE made from n >= 1 signatures and the same keys,
\* every signature being a valid plain BLS signature of the one message under
\* its key, it returns true.
C2_RoundTripShared ==
  ( /\ call.op = "VerifyMulti"
    /\ RoundTrip
    /\ \A i \in 1..Len(agg.sigs) :
         VerifySingleSignature(agg.sigs[i], call.args.pubkeys[i],
                               call.args.msgs[1]) )
  => ok = TRUE

\* Two signers with different non-degenerate keys signed one message, and the
\* aggregate was verified.
C2_Witness ==
  /\ call.op = "VerifyMulti"
  /\ RoundTrip
  /\ Len(call.args.pubkeys) = 2
  /\ call.args.pubkeys[1] # 0
  /\ call.args.pubkeys[2] # 0
  /\ call.args.pubkeys[1] # call.args.pubkeys[2]
  /\ \A i \in 1..2 :
       VerifySingleSignature(agg.sigs[i], call.args.pubkeys[i],
                             call.args.msgs[1])
  /\ ok = TRUE

\* C3: when VerifyMultiSignatureWithHAE returns, every element of the
\* caller's key sequence holds the value it held before the call.
C3_KeysUnchanged ==
  call.op = "VerifyMulti" => pubkeys = call.args.pubkeys

\* C4: when AggregateSignaturesWithHAE is given sequences of different
\* lengths it returns nil, having derived no exponents, multiplied no point
\* and aggregated nothing.
C4_LengthMismatch ==
  (call.op = "Aggregate" /\ Len(call.args.sigs) # Len(call.args.pubkeys))
  => (aggsig = NIL /\ call.calls = <<>> /\ call.derived = <<>>)

\* An aggregation was called with more keys than signatures.
C4_Witness ==
  /\ call.op = "Aggregate"
  /\ Len(call.args.sigs) < Len(call.args.pubkeys)
  /\ Len(call.args.sigs) >= 1
  /\ aggsig = NIL

\* Sequences of one length that differ at exactly one index.
DiffersInOne(a, b) ==
  /\ Len(a) = Len(b)
  /\ Cardinality({i \in 1..Len(a) : a[i] # b[i]}) = 1

\* The latest call was given the caller's earlier values with the aggregate
\* replaced by another point.
SigReplaced ==
  /\ before.kind # "none"
  /\ call.args.aggsig # before.aggsig
  /\ call.args.pubkeys = before.pubkeys

\* ... with one public key replaced by another point.
KeyReplaced ==
  /\ before.kind # "none"
  /\ call.args.aggsig = before.aggsig
  /\ DiffersInOne(call.args.pubkeys, before.pubkeys)

\* ... with one message replaced by another message.
MsgReplaced ==
  /\ before.kind # "none"
  /\ call.args.aggsig = before.aggsig
  /\ call.args.pubkeys = before.pubkeys
  /\ DiffersInOne(call.args.msgs, before.msgs)

\* The same operation returns true on the caller's earlier values.
VerifiedBefore ==
  IF call.op = "VerifyAggregate"
  THEN VerifyAggregateSignatureWithHAE(before.aggsig, before.pubkeys,
                                       before.msgs).ret
  ELSE VerifyMultiSignatureWithHAE(before.aggsig, before.pubkeys,
                                   call.args.msgs[1]).ret

\* The shared message of the latest call replaces a different message on
\* which the same aggregate and keys verify.
SharedMsgReplaced(m0) ==
  /\ m0 # call.args.msgs[1]
  /\ VerifyMultiSignatureWithHAE(call.args.aggsig, call.args.pubkeys, m0).ret

\* C5: from an aggregate, keys and message(s) on which the verification
\* returns true, replacing one message, one public key or the aggregate by a
\* different value makes the same verification return false (stated here for
\* at least one key).
C5_TamperDetected ==
  Len(call.args.pubkeys) >= 1 =>
  /\ ( /\ call.op = "VerifyAggregate"
       /\ (SigReplaced \/ KeyReplaced) => call.args.msgs = before.msgs
       /\ SigReplaced \/ KeyReplaced \/ MsgReplaced
       /\ VerifiedBefore ) => ok = FALSE
  /\ ( /\ call.op = "VerifyMulti"
       /\ SigReplaced \/ KeyReplaced
       /\ VerifiedBefore ) => ok = FALSE
  /\ ( /\ call.op = "VerifyMulti"
       /\ \E m0 \in Msgs : SharedMsgReplaced(m0) ) => ok = FALSE

\* C6: any two derivations made from the same ordered key sequence, whatever
\* was called before or between them, gave the same exponents.
C6_Deterministic ==
  \A a, b \in derivs : a.keys = b.keys => a.t = b.t

\* The aggregation and then the verification derived the exponents of the
\* same two keys.
C6_Witness ==
  /\ call.op \in {"VerifyAggregate", "VerifyMulti"}
  /\ RoundTrip
  /\ Len(call.args.pubkeys) = 2
  /\ \E d \in derivs : d.keys = call.args.pubkeys /\ d.t = call.derived[1].t
  /\ ncalls >= 2

\* C7: a derivation from a zero-length key sequence reports EmptyInput.
C7_EmptyInputExplicit ==
  \A k \in 1..Len(call.derived) :
    call.derived[k].keys = <<>> => call.derived[k].err = "EmptyInput"

\* C9: a derivation from n >= 1 keys wrote the uncompressed encodings of key
\* 1 to key n in that order into a stream of 16*n output bytes, read all of
\* them, and returned n exponents, exponent i being the big-endian unsigned
\* integer of output bytes 16*(i-1) .. 16*i-1, hence below 2^128.
C9_Layout ==
  \A k \in 1..Len(call.derived) :
    LET d == call.derived[k]
        n == Len(d.keys)
        out == Squeeze(Digest(d.hashFunc), 0, ChunkLen * n)
    IN  n >= 1 =>
          /\ d.hashFunc.size = 16 * n
          /\ d.hashFunc.pos = 16 * n
          /\ Len(d.hashFunc.buf) = MarshalLen * n
          /\ \A i \in 1..n : \A b \in 1..MarshalLen :
               d.hashFunc.buf[MarshalLen * (i - 1) + b]
                 = MarshalUncompressed(d.keys[i])[b]
          /\ Len(d.t) = n
          /\ \A i \in 1..n :
               /\ Len(d.t[i]) <= 16
               /\ \A j \in 1..16 :
                    (IF j <= Len(d.t[i]) THEN d.t[i][j] ELSE 0)
                      = out[16 * (i - 1) + 17 - j]
               /\ \A j \in 1..Len(d.t[i]) : d.t[i][j] \in 0..255

\* Exponents were derived from two different keys.
C9_Witness ==
  /\ call.derived # <<>>
  /\ Len(call.derived[1].keys) = 2
  /\ call.derived[1].keys[1] # call.derived[1].keys[2]
  /\ Len(call.derived[1].t) = 2
  /\ call.derived[1].t[1] # call.derived[1].t[2]

\* C10: when VerifyMultiSignatureWithHAE is called again with the same key
\* sequence object, aggregate and message and nothing is written in between,
\* it returns what the first call returned.
C10_Repeatable ==
  repeat.n >= 2 => ok = repeat.first

\* What the invocation c returns when it runs alone on its inputs.
Alone(c) ==
  CASE c.op = "Aggregate" ->
         c.retPoint = AggregateSignaturesWithHAE(c.in.sigs, c.in.pubkeys).ret
    [] c.op = "VerifyAggregate" ->
         \E r \in {VerifyAggregateSignatureWithHAE(c.in.aggsig, c.in.pubkeys,
                                                   c.in.msgs)} :
           c.retBool = r.ret /\ c.pubkeys = r.pubkeys
    [] c.op = "VerifyMulti" ->
         \E r \in {VerifyMultiSignatureWithHAE(c.in.aggsig, c.in.pubkeys,
                                               c.in.msgs[1])} :
           c.retBool = r.ret /\ c.pubkeys = r.pubkeys
    [] c.op = "Derive" ->
         c.t = hashPubKeysToExponents(c.in.pubkeys).t

\* C8: an invocation that ran concurrently with another one, on inputs of its
\* own, its hashing and scaling steps interleaved with the other's in any
\* order, returns what it returns when it runs alone.
C8_ConcurrentSafe ==
  \A th \in Threads : inv[th].pc = "done" => Alone(inv[th])

\* Two invocations of different operations, each on at least one key, both
\* returned after steps of each fell within the hashing of the other.
C8_Witness ==
  /\ \A th \in Threads :
       inv[th].pc = "done" /\ inv[th].mixed /\ Len(inv[th].in.pubkeys) >= 1
  /\ inv[1].op = "Aggregate"
  /\ inv[2].op = "VerifyMulti"
  /\ inv[1].retPoint # NIL
  /\ inv[2].retBool = TRUE
=============================================================================
